---- MODULE Spec2Model ----
(***************************************************************************)
(* Lifecycle controller and dispatcher of the example servers of           *)
(* markwylde/code-style.                                                   *)
(*                                                                         *)
(* Three createServer implementations live in the repository:              *)
(*   "todo"   src/unnamed/part_005            context built once, socket   *)
(*                                            tracking, alive flag         *)
(*   "notes"  example/packages/api/src/createServer.ts                     *)
(*                                            http.Server per start()      *)
(*   "single" src/unnamed/part_002            one http.Server, guarded by  *)
(*                                            httpServer.listening         *)
(* An async function is modelled one action per await: the code between    *)
(* two awaits runs to completion, callers and other continuations may run  *)
(* at every await.  node:http is modelled by its documented behaviour:     *)
(* listen() throws ERR_SERVER_ALREADY_LISTEN on a listening server, a      *)
(* failed bind emits 'error', close() stops accepting at once and calls    *)
(* back when every connection has ended, with ERR_SERVER_NOT_RUNNING when  *)
(* the server was not open.                                                *)
(***************************************************************************)
EXTENDS Integers, Sequences, FiniteSets, TLC

\* ---------------------------------------------------------------- bounds
MaxCalls == 2
MaxInvocations == 3
MaxServers == 2
MaxConns == 1
NumEphemeral == 2

\* waitForHealth's retry budget
maxAttempts == 40

Impls == {"todo", "notes", "single"}
CallIds == 1..MaxCalls
ServerIds == 1..MaxServers
ConnIds == 1..MaxConns
\* port 0 asks the OS for an ephemeral port; port 1 is a fixed configured port
EphemeralPorts == 2..(1 + NumEphemeral)
Ports == {1} \cup EphemeralPorts

VARIABLES
  impl,         \* which createServer built the server
  cfgPort,      \* config.port / config.todoApiPort
  servers,      \* the http.Server objects: [made, listening, port]
  httpServer,   \* the http.Server the lifecycle closure holds (0 = null)
  context,      \* the AppContext the closure holds (0 = null)
  ctxBuilt,     \* contexts created so far (their ids are 1..ctxBuilt)
  alive,        \* context.lifecycle.alive (todo)
  destroyed,    \* number of context.destroy() calls run (todo)
  sockets,      \* the Set<Socket> of tracked sockets (todo)
  conns,        \* accepted connections and the request each carries
  calls,        \* pending start/stop/restart calls, one slot per caller
  extPort,      \* a port another process holds (0 = none)
  crashed,      \* the process died of an unhandled 'error' event
  invocations,  \* lifecycle calls made so far
  event,        \* what the last step did (history)
  resolvedPort, \* port bound when the first start() resolved (history)
  preRestartCtx, \* context held when the last resolved restart() was called
  routes,       \* the route table, in declaration order
  req,          \* the request being dispatched
  rpc,          \* where its dispatch stands
  matched,      \* index of the route the scan stopped at (0 = none)
  invoked,      \* indices of the routes whose handler was called for it
  responses,    \* status codes of the responses written and ended for it
  bodies,       \* their bodies, in the same order
  thrown,       \* what its handler threw
  headersSent,  \* response.headersSent
  unhandled,    \* a rejection nothing handles came out of its dispatch
  controllers,  \* the controllers the server is built from, in declaration order
  document,     \* the OpenAPI document last generated from them
  mPattern,     \* a route pattern given to the matchers
  mPath,        \* a request path given to the matchers
  mResult,      \* what the matchers answered for them
  reader,       \* a request body being read and validated
  store,        \* the todos Map of the context: id -> todo
  nextId,       \* ids handed out so far (randomUUID gives a fresh one each time)
  ledger        \* ids a POST answered 201 for and no DELETE answered 204 for, since
                \* the start() that bound the listener (history)
VARIABLE
  publicBaseUrl \* config.publicBaseUrl: "own" when it names the address the
                \* todo server listens on, "other" when it names another one

lifecycleVars == << impl, cfgPort, servers, httpServer, context, ctxBuilt, alive,
                    destroyed, sockets, conns, calls, extPort, crashed,
                    invocations, event, resolvedPort, preRestartCtx >>

dispatchVars == << routes, req, rpc, matched, invoked, responses, bodies, thrown,
                   headersSent, unhandled >>

pureVars == << controllers, document, mPattern, mPath, mResult >>

modelVars == << reader, store, nextId, ledger, publicBaseUrl >>

vars == << lifecycleVars, dispatchVars, pureVars, modelVars >>

\* ---------------------------------------------------------------- node:http
NoServer == [made |-> FALSE, listening |-> FALSE, port |-> 0]
NoConn == [srv |-> 0, open |-> FALSE, st |-> "none", ctx |-> 0]
NoSnap == [alive |-> FALSE, context |-> 0, destroyed |-> 0, listening |-> {},
           ctxBuilt |-> 0]
Idle == [op |-> "none", pc |-> "idle", srv |-> 0, port |-> 0, err |-> FALSE,
         attempt |-> 0, st0 |-> "Stopped", twin |-> FALSE, snap |-> NoSnap]
NoRequest == [method |-> "", hasUrl |-> FALSE, path |-> << >>, query |-> "",
              body |-> ""]
\* what a handler threw
NoThrow == [kind |-> "none", status |-> 0, code |-> "", message |-> ""]
NoDocument == [generated |-> FALSE, served |-> << >>, paths |-> {}]
NoMatch == [applied |-> FALSE, url |-> FALSE, groups |-> {}, guide |-> FALSE,
            params |-> {}]
NoReader == [pc |-> "idle", contentType |-> "", kind |-> "", chunks |-> << >>,
             read |-> 0, totalBytes |-> 0, buffered |-> 0, status |-> 0,
             failure |-> ""]
\* no body is being read; the todos Map is as createContext built it
ModelIdle ==
  /\ reader = NoReader
  /\ store = << >>
  /\ nextId = 0
  /\ ledger = {}

\* no document has been generated and no matcher applied
PureIdle ==
  /\ controllers = << >>
  /\ document = NoDocument
  /\ mPattern = << >>
  /\ mPath = << >>
  /\ mResult = NoMatch
NoEvent == [kind |-> "step", op |-> "none", outcome |-> "none", cause |-> "none",
            st0 |-> "Stopped", twin |-> FALSE, snap |-> NoSnap, ctx |-> 0]

\* ports bound by this process's listeners
BoundPorts == {servers[s].port : s \in {t \in ServerIds : servers[t].listening}}

\* a port nobody holds
PortFree(p) == p \notin BoundPorts /\ p # extPort

\* the ports a listen(port) may end up bound to: the port itself, or for
\* port 0 any free ephemeral port
BindChoices(port) ==
  IF port = 0 THEN {p \in EphemeralPorts : PortFree(p)}
  ELSE {p \in {port} : PortFree(p)}

Listening == {s \in ServerIds : servers[s].listening}

OpenConns(s) == {k \in ConnIds : conns[k].open /\ conns[k].srv = s}

\* the server the lifecycle functions act on
CurrentServer == IF impl = "notes" THEN httpServer ELSE 1

\* ---------------------------------------------------------------- lifecycle state
StartPcs == {"start", "ctx", "listen", "listenCb", "probe"}
StopPcs == {"stop", "closing"}

Pending == {c \in CallIds : calls[c].op # "none"}

\* Stopped / Starting / Running / Stopping as the spec names them, read off the
\* pending calls and the listener
ServerState ==
  IF \E c \in Pending : calls[c].pc \in StopPcs THEN "Stopping"
  ELSE IF \E c \in Pending : calls[c].pc \in StartPcs THEN "Starting"
  ELSE IF CurrentServer # 0 /\ servers[CurrentServer].listening THEN "Running"
  ELSE "Stopped"

\* Calling an async function runs it up to its first await at once: a call that
\* has just been made (or a restart() whose stop() half has just resolved) takes
\* its first step before anything else happens.
Urgent == \E c \in CallIds : calls[c].pc \in {"start", "stop"}

Snapshot == [alive |-> alive, context |-> context, destroyed |-> destroyed,
             listening |-> Listening, ctxBuilt |-> ctxBuilt]

Settled(c, outcome, cause) ==
  [kind |-> "settled", op |-> calls[c].op, outcome |-> outcome, cause |-> cause,
   st0 |-> calls[c].st0, twin |-> calls[c].twin, snap |-> calls[c].snap,
   ctx |-> 0]

\* ---------------------------------------------------------------- construction
\* createServer(config): the todo server builds its context (alive: true) and its
\* one http.Server here; the single-listener notes server builds its http.Server
\* here; the notes server builds nothing until start().
Constructed ==
  /\ impl \in Impls
  /\ cfgPort \in (IF impl = "todo" THEN {1} ELSE {0, 1})
  /\ servers = [s \in ServerIds |->
                  IF s = 1 /\ impl # "notes"
                  THEN [made |-> TRUE, listening |-> FALSE, port |-> 0]
                  ELSE NoServer]
  /\ httpServer = IF impl = "notes" THEN 0 ELSE 1
  /\ context = IF impl = "todo" THEN 1 ELSE 0
  /\ ctxBuilt = IF impl = "todo" THEN 1 ELSE 0
  /\ alive = (impl = "todo")
  /\ destroyed = 0
  /\ sockets = {}
  /\ conns = [k \in ConnIds |-> NoConn]
  /\ calls = [c \in CallIds |-> Idle]
  /\ extPort = 0
  /\ crashed = FALSE
  /\ invocations = 0
  /\ event = NoEvent
  /\ resolvedPort = 0
  /\ preRestartCtx = 0
  /\ routes = << >>
  /\ req = NoRequest
  /\ rpc = "idle"
  /\ matched = 0
  /\ invoked = << >>
  /\ responses = << >>
  /\ bodies = << >>
  /\ thrown = NoThrow
  /\ headersSent = FALSE
  /\ unhandled = FALSE
  /\ PureIdle
  /\ ModelIdle

\* config.publicBaseUrl names the server's own address, as in test/helpers.ts
Init == Constructed /\ publicBaseUrl = "own"

\* ---------------------------------------------------------------- callers
\* A caller invokes start(), stop() or restart(); a call may be made while
\* another is pending.
Invoke(c, op) ==
  /\ ~crashed /\ ~Urgent
  /\ calls[c].op = "none"
  /\ \A d \in CallIds : d < c => calls[d].op # "none"
  /\ invocations < MaxInvocations
  /\ calls' = [d \in CallIds |->
       IF d = c
       THEN [Idle EXCEPT !.op = op,
                         !.pc = IF op = "start" THEN "start" ELSE "stop",
                         !.st0 = ServerState,
                         !.twin = (\E e \in Pending : calls[e].op = op),
                         !.snap = Snapshot]
       ELSE IF calls[d].op = op THEN [calls[d] EXCEPT !.twin = TRUE]
       ELSE calls[d]]
  /\ invocations' = invocations + 1
  /\ event' = NoEvent
  /\ UNCHANGED << dispatchVars, pureVars, modelVars, impl, cfgPort, servers, httpServer, context, ctxBuilt, alive,
                  destroyed, sockets, conns, extPort, crashed, resolvedPort,
                  preRestartCtx >>

\* a call settles: its slot is free again
Settle(c, outcome, cause) ==
  /\ calls' = [calls EXCEPT ![c] = Idle]
  /\ event' = Settled(c, outcome, cause)
  /\ resolvedPort' =
       IF /\ outcome = "resolved"
          /\ calls[c].op \in {"start", "restart"}
          /\ resolvedPort = 0
          /\ CurrentServer' # 0
          /\ servers'[CurrentServer'].listening
       THEN servers'[CurrentServer'].port
       ELSE resolvedPort
  /\ preRestartCtx' =
       IF outcome = "resolved" /\ calls[c].op = "restart"
       THEN calls[c].snap.context
       ELSE preRestartCtx

\* a call moves on to its next await
Goto(c, pc) ==
  /\ calls' = [calls EXCEPT ![c].pc = pc]
  /\ event' = NoEvent
  /\ UNCHANGED << resolvedPort, preRestartCtx >>

\* (a restart() that resolves once its stop() half has)
StopDoneSkipsStart(c) == Settle(c, "resolved", "none")

\* restart(): `await app.stop(); await app.start();` - the stop half resolved
StopDone(c) ==
  IF calls[c].op = "restart" THEN Goto(c, "start")
  ELSE Settle(c, "resolved", "none")

\* ---------------------------------------------------------------- todo server
\* (a destroy that leaves the todos where they are)
destroyKeeps(todos) == todos

\* context.destroy(): todos.clear()
destroy(todos) == << >>

\* start(), up to the listen callback: `context.lifecycle.alive = true`, then
\* apiServer.listen(config.todoApiPort, cb) inside the promise executor. listen()
\* without a host binds synchronously: it throws on a listening server, and a
\* failed bind reaches once("error", reject).
TodoStartListen(c) ==
  /\ impl = "todo" /\ ~crashed
  /\ calls[c].op # "none" /\ calls[c].pc = "start"
  /\ alive' = TRUE
  /\ UNCHANGED << dispatchVars, pureVars, reader, store, nextId, publicBaseUrl, impl,
                  cfgPort, httpServer, context, ctxBuilt, destroyed,
                  sockets, conns, extPort, crashed, invocations >>
  /\ IF servers[1].listening \/ ~PortFree(cfgPort)
     THEN /\ servers' = servers
          /\ ledger' = ledger
          /\ Settle(c, "rejected",
                    IF servers[1].listening THEN "listening" ELSE "bind")
     ELSE /\ servers' = [servers EXCEPT ![1].listening = TRUE,
                                        ![1].port = cfgPort]
          /\ ledger' = {}
          /\ Goto(c, "listenCb")

\* the listen callback: `apiServer.off("error", reject); resolve()`; start() goes
\* on to `await waitForHealth(config)`. 'listening' is only emitted while the
\* handle is still there.
TodoListening(c) ==
  /\ impl = "todo" /\ ~crashed /\ ~Urgent
  /\ calls[c].op # "none" /\ calls[c].pc = "listenCb"
  /\ servers[1].listening
  /\ calls' = [calls EXCEPT ![c].pc = "probe", ![c].attempt = 1]
  /\ event' = NoEvent
  /\ UNCHANGED << dispatchVars, pureVars, modelVars, impl, cfgPort, servers, httpServer, context, ctxBuilt, alive,
                  destroyed, sockets, conns, extPort, crashed, invocations,
                  resolvedPort, preRestartCtx >>

\* what GET /health on the todo server's public URL answers right now: the health
\* controller always sends 200; nothing answers when nobody listens on the port
\* (or on the other address that config.publicBaseUrl names)
TodoHealthOk ==
  publicBaseUrl = "own" /\ servers[1].listening /\ servers[1].port = cfgPort

\* one iteration of waitForHealth's loop: fetch /health; response.ok returns and
\* start() resolves; otherwise sleep 25 ms and try again, and throw after
\* maxAttempts attempts. A foreign server on the port may answer either way.
TodoProbe(c) ==
  /\ impl = "todo" /\ ~crashed /\ ~Urgent
  /\ calls[c].op # "none" /\ calls[c].pc = "probe"
  /\ UNCHANGED << dispatchVars, pureVars, modelVars, impl, cfgPort, servers, httpServer, context, ctxBuilt, alive,
                  destroyed, sockets, conns, extPort, crashed, invocations >>
  /\ \E ok \in (IF TodoHealthOk THEN {TRUE}
                ELSE IF extPort = cfgPort \/ publicBaseUrl = "other"
                THEN {TRUE, FALSE} ELSE {FALSE}) :
       IF ok THEN Settle(c, "resolved", "none")
       ELSE IF calls[c].attempt < maxAttempts
       THEN /\ calls' = [calls EXCEPT ![c].attempt = calls[c].attempt + 1]
            /\ event' = NoEvent
            /\ UNCHANGED << resolvedPort, preRestartCtx >>
       ELSE Settle(c, "rejected", "health")

\* stop()'s loop `for (const socket of sockets) socket.destroy()` as the step's
\* event: the sockets it destroyed and whether the listener was accepting then
\* (apiServer.close() is called after the loop)
SocketsDestroyed(tracked, accepting) ==
  [kind |-> "sockets", op |-> "none", outcome |-> "none", cause |-> "none",
   st0 |-> "Stopped", twin |-> FALSE, snap |-> NoSnap, ctx |-> 0,
   tracked |-> tracked, accepting |-> accepting]

\* stop(), up to the close callback: `context.lifecycle.alive = false`, destroy and
\* clear every tracked socket, then apiServer.close(cb)
TodoStopClose(c) ==
  /\ impl = "todo" /\ ~crashed
  /\ calls[c].op # "none" /\ calls[c].pc = "stop"
  /\ alive' = FALSE
  /\ conns' = [k \in ConnIds |->
                 IF k \in sockets THEN [conns[k] EXCEPT !.open = FALSE]
                 ELSE conns[k]]
  /\ sockets' = {}
  /\ servers' = [servers EXCEPT ![1].listening = FALSE, ![1].port = 0]
  /\ calls' = [calls EXCEPT ![c].pc = "closing",
                            ![c].srv = 1,
                            ![c].err = ~servers[1].listening]
  /\ event' = SocketsDestroyed(sockets, servers[1].listening)
  /\ UNCHANGED << dispatchVars, pureVars, modelVars, impl, cfgPort, httpServer, context, ctxBuilt, destroyed,
                  extPort, crashed, invocations, resolvedPort,
                  preRestartCtx >>

\* the close callback, once every connection has ended: an error rejects stop();
\* otherwise `await context.destroy()` runs and stop() resolves
TodoStopClosed(c) ==
  /\ impl = "todo" /\ ~crashed /\ ~Urgent
  /\ calls[c].op # "none" /\ calls[c].pc = "closing"
  /\ OpenConns(1) = {}
  /\ UNCHANGED << dispatchVars, pureVars, reader, nextId, ledger, publicBaseUrl, impl,
                  cfgPort, servers, httpServer, context, ctxBuilt, alive,
                  sockets, conns, extPort, crashed, invocations >>
  /\ IF calls[c].err
     THEN /\ destroyed' = destroyed
          /\ store' = store
          /\ Settle(c, "rejected", "close")
     ELSE /\ destroyed' = destroyed + 1
          /\ store' = destroy(store)
          /\ StopDone(c)

\* ---------------------------------------------------------------- notes server
\* an http.Server object nothing refers to any more
FreeServers ==
  {s \in ServerIds : /\ ~servers[s].listening
                     /\ OpenConns(s) = {}
                     /\ httpServer # s
                     /\ \A c \in Pending : calls[c].srv # s}

\* (a start() that left config.port as it was configured)
PortAfterListenKeepsConfigured(srvs, hs) == cfgPort

\* `config.port = address.port` after the listen callback: httpServer.address()
\* is null while that server is not listening
PortAfterListen(srvs, hs) ==
  IF srvs[hs].listening THEN srvs[hs].port ELSE cfgPort

\* start(), up to `await contextFactory(config)`: `if (httpServer) return;`
NotesStart(c) ==
  /\ impl = "notes" /\ ~crashed
  /\ calls[c].op # "none" /\ calls[c].pc = "start"
  /\ UNCHANGED << dispatchVars, pureVars, modelVars, impl, cfgPort, servers, httpServer, context, ctxBuilt, alive,
                  destroyed, sockets, conns, extPort, crashed, invocations >>
  /\ IF httpServer # 0 THEN Settle(c, "resolved", "none") ELSE Goto(c, "ctx")

\* contextFactory resolved: `context = ...; httpServer = createHttpServer(...)`,
\* then activeServer.listen(config.port, config.host, resolve)
NotesStartBuild(c) ==
  /\ impl = "notes" /\ ~crashed /\ ~Urgent
  /\ calls[c].op # "none" /\ calls[c].pc = "ctx"
  /\ FreeServers # {}
  /\ LET s == CHOOSE t \in FreeServers : \A u \in FreeServers : t <= u IN
       /\ context' = ctxBuilt + 1
       /\ ctxBuilt' = ctxBuilt + 1
       /\ httpServer' = s
       /\ servers' = [servers EXCEPT ![s] = [made |-> TRUE, listening |-> FALSE,
                                             port |-> 0]]
       /\ calls' = [calls EXCEPT ![c].pc = "listen", ![c].srv = s,
                                 ![c].port = cfgPort]
  /\ event' = NoEvent
  /\ UNCHANGED << dispatchVars, pureVars, modelVars, impl, cfgPort, alive, destroyed, sockets, conns, extPort,
                  crashed, invocations, resolvedPort,
                  preRestartCtx >>

\* the bind of activeServer ends. Bound: the listen callback resolves the promise
\* and start() reads httpServer.address() (a TypeError when a stop() has set
\* httpServer to null) and stores the port. Not bound: the server emits 'error',
\* which nothing listens for, and the process dies.
NotesBound(c) ==
  /\ impl = "notes" /\ ~crashed /\ ~Urgent
  /\ calls[c].op # "none" /\ calls[c].pc = "listen"
  /\ calls[c].port = 0 => BindChoices(0) # {}
  /\ UNCHANGED << dispatchVars, pureVars, modelVars, impl, httpServer, context, ctxBuilt, alive, destroyed, sockets,
                  conns, extPort, invocations >>
  /\ IF BindChoices(calls[c].port) = {}
     THEN /\ crashed' = TRUE
          /\ event' = [NoEvent EXCEPT !.kind = "crash", !.cause = "bind",
                                      !.op = calls[c].op]
          /\ UNCHANGED << cfgPort, servers, calls, resolvedPort, preRestartCtx >>
     ELSE \E p \in BindChoices(calls[c].port) :
            /\ crashed' = crashed
            /\ servers' = [servers EXCEPT ![calls[c].srv].listening = TRUE,
                                          ![calls[c].srv].port = p]
            /\ IF httpServer = 0
               THEN /\ cfgPort' = cfgPort
                    /\ Settle(c, "rejected", "null")
               ELSE /\ cfgPort' = PortAfterListen(servers', httpServer)
                    /\ Settle(c, "resolved", "none")

\* stop(), up to the close callback: `if (!httpServer) return;` then
\* httpServer.close(cb)
NotesStop(c) ==
  /\ impl = "notes" /\ ~crashed
  /\ calls[c].op # "none" /\ calls[c].pc = "stop"
  /\ UNCHANGED << dispatchVars, pureVars, modelVars, impl, cfgPort, httpServer, context, ctxBuilt, alive, destroyed,
                  sockets, conns, extPort, crashed, invocations >>
  /\ IF httpServer = 0
     THEN /\ servers' = servers
          /\ StopDone(c)
     ELSE /\ servers' = [servers EXCEPT ![httpServer].listening = FALSE,
                                        ![httpServer].port = 0]
          /\ calls' = [calls EXCEPT ![c].pc = "closing",
                                    ![c].srv = httpServer,
                                    ![c].err = ~servers[httpServer].listening]
          /\ event' = NoEvent
          /\ UNCHANGED << resolvedPort, preRestartCtx >>

\* the close callback, once every connection has ended: an error rejects stop();
\* otherwise `httpServer = null; context = null;`
NotesStopClosed(c) ==
  /\ impl = "notes" /\ ~crashed /\ ~Urgent
  /\ calls[c].op # "none" /\ calls[c].pc = "closing"
  /\ OpenConns(calls[c].srv) = {}
  /\ UNCHANGED << dispatchVars, pureVars, modelVars, impl, cfgPort, servers, ctxBuilt, alive, destroyed, sockets,
                  conns, extPort, crashed, invocations >>
  /\ IF calls[c].err
     THEN /\ UNCHANGED << httpServer, context >>
          /\ Settle(c, "rejected", "close")
     ELSE /\ httpServer' = 0
          /\ context' = 0
          /\ StopDone(c)

\* ---------------------------------------------------------------- single-listener notes server
\* start(), up to `await contextFactory(config)`: `if (httpServer.listening) return;`
SingleStart(c) ==
  /\ impl = "single" /\ ~crashed
  /\ calls[c].op # "none" /\ calls[c].pc = "start"
  /\ UNCHANGED << dispatchVars, pureVars, modelVars, impl, cfgPort, servers, httpServer, context, ctxBuilt, alive,
                  destroyed, sockets, conns, extPort, crashed, invocations >>
  /\ IF servers[1].listening THEN Settle(c, "resolved", "none")
     ELSE Goto(c, "ctx")

\* contextFactory resolved: `context = ...`, then httpServer.listen(config.port,
\* config.host, resolve), which throws on a listening server
SingleStartBuild(c) ==
  /\ impl = "single" /\ ~crashed /\ ~Urgent
  /\ calls[c].op # "none" /\ calls[c].pc = "ctx"
  /\ context' = ctxBuilt + 1
  /\ ctxBuilt' = ctxBuilt + 1
  /\ UNCHANGED << dispatchVars, pureVars, modelVars, impl, cfgPort, servers, httpServer, alive, destroyed, sockets,
                  conns, extPort, crashed, invocations >>
  /\ IF servers[1].listening
     THEN Settle(c, "rejected", "listening")
     ELSE /\ calls' = [calls EXCEPT ![c].pc = "listen", ![c].srv = 1,
                                    ![c].port = cfgPort]
          /\ event' = NoEvent
          /\ UNCHANGED << resolvedPort, preRestartCtx >>

\* the bind ends (or another start()'s listen has bound the server meanwhile and
\* 'listening' fires for this callback too); start() stores the bound port
SingleBound(c) ==
  /\ impl = "single" /\ ~crashed /\ ~Urgent
  /\ calls[c].op # "none" /\ calls[c].pc = "listen"
  /\ (calls[c].port = 0 /\ ~servers[1].listening) => BindChoices(0) # {}
  /\ UNCHANGED << dispatchVars, pureVars, modelVars, impl, httpServer, context, ctxBuilt, alive, destroyed, sockets,
                  conns, extPort, invocations >>
  /\ IF servers[1].listening
     THEN /\ crashed' = crashed
          /\ servers' = servers
          /\ cfgPort' = PortAfterListen(servers', 1)
          /\ Settle(c, "resolved", "none")
     ELSE IF BindChoices(calls[c].port) = {}
     THEN /\ crashed' = TRUE
          /\ event' = [NoEvent EXCEPT !.kind = "crash", !.cause = "bind",
                                      !.op = calls[c].op]
          /\ UNCHANGED << cfgPort, servers, calls, resolvedPort, preRestartCtx >>
     ELSE \E p \in BindChoices(calls[c].port) :
            /\ crashed' = crashed
            /\ servers' = [servers EXCEPT ![1].listening = TRUE, ![1].port = p]
            /\ cfgPort' = PortAfterListen(servers', 1)
            /\ Settle(c, "resolved", "none")

\* stop(), up to the close callback: `if (!httpServer.listening) return;` then
\* httpServer.close(cb)
SingleStop(c) ==
  /\ impl = "single" /\ ~crashed
  /\ calls[c].op # "none" /\ calls[c].pc = "stop"
  /\ UNCHANGED << dispatchVars, pureVars, modelVars, impl, cfgPort, httpServer, context, ctxBuilt, alive, destroyed,
                  sockets, conns, extPort, crashed, invocations >>
  /\ IF ~servers[1].listening
     THEN /\ servers' = servers
          /\ StopDone(c)
     ELSE /\ servers' = [servers EXCEPT ![1].listening = FALSE, ![1].port = 0]
          /\ calls' = [calls EXCEPT ![c].pc = "closing", ![c].srv = 1]
          /\ event' = NoEvent
          /\ UNCHANGED << resolvedPort, preRestartCtx >>

\* the close callback, once every connection has ended: `context = null;`
SingleStopClosed(c) ==
  /\ impl = "single" /\ ~crashed /\ ~Urgent
  /\ calls[c].op # "none" /\ calls[c].pc = "closing"
  /\ OpenConns(1) = {}
  /\ context' = 0
  /\ UNCHANGED << dispatchVars, pureVars, modelVars, impl, cfgPort, servers, httpServer, ctxBuilt, alive, destroyed,
                  sockets, conns, extPort, crashed, invocations >>
  /\ StopDone(c)

\* ---------------------------------------------------------------- connections and requests
HandlerEvent(ctx) == [NoEvent EXCEPT !.kind = "handler", !.ctx = ctx]

\* a client connects to a listening server and sends a request; the todo server's
\* 'connection' listener adds the socket to `sockets`
Connect(k, s) ==
  /\ ~crashed /\ ~Urgent
  /\ conns[k].st = "none"
  /\ servers[s].listening
  /\ conns' = [conns EXCEPT ![k] = [srv |-> s, open |-> TRUE, st |-> "recv",
                                    ctx |-> 0]]
  /\ sockets' = IF impl = "todo" THEN sockets \cup {k} ELSE sockets
  /\ event' = NoEvent
  /\ UNCHANGED << dispatchVars, pureVars, modelVars, impl, cfgPort, servers, httpServer, context, ctxBuilt, alive,
                  destroyed, calls, extPort, crashed, invocations, resolvedPort, preRestartCtx >>

\* todo: createRouter(context, routes, request, response) hands the one context
\* built by createServer to the controller's handler
TodoRoute(k) ==
  /\ impl = "todo" /\ ~crashed /\ ~Urgent
  /\ conns[k].st = "recv"
  /\ conns' = [conns EXCEPT ![k].st = "handle", ![k].ctx = context]
  /\ event' = HandlerEvent(context)
  /\ UNCHANGED << dispatchVars, pureVars, modelVars, impl, cfgPort, servers, httpServer, context, ctxBuilt, alive,
                  destroyed, sockets, calls, extPort, crashed, invocations,
                  resolvedPort, preRestartCtx >>

\* notes: handleRequest's `await ensureContext()`, up to its own await:
\* `if (!context) { context = await contextFactory(config); }`
NotesEnsureContext(k) ==
  /\ impl = "notes" /\ ~crashed /\ ~Urgent
  /\ conns[k].st = "recv"
  /\ conns' = IF context # 0
              THEN [conns EXCEPT ![k].st = "route", ![k].ctx = context]
              ELSE [conns EXCEPT ![k].st = "build"]
  /\ event' = NoEvent
  /\ UNCHANGED << dispatchVars, pureVars, modelVars, impl, cfgPort, servers, httpServer, context, ctxBuilt, alive,
                  destroyed, sockets, calls, extPort, crashed, invocations,
                  resolvedPort, preRestartCtx >>

\* notes: ensureContext's contextFactory resolved: a context is built for the
\* request and stored
NotesContextBuilt(k) ==
  /\ impl = "notes" /\ ~crashed /\ ~Urgent
  /\ conns[k].st = "build"
  /\ context' = ctxBuilt + 1
  /\ ctxBuilt' = ctxBuilt + 1
  /\ conns' = [conns EXCEPT ![k].st = "route", ![k].ctx = ctxBuilt + 1]
  /\ event' = [NoEvent EXCEPT !.kind = "lazy", !.ctx = ctxBuilt + 1]
  /\ UNCHANGED << dispatchVars, pureVars, modelVars, impl, cfgPort, servers, httpServer, alive, destroyed, sockets,
                  calls, extPort, crashed, invocations, resolvedPort, preRestartCtx >>

\* notes: the matched controller's handler is called with activeContext
NotesRoute(k) ==
  /\ impl = "notes" /\ ~crashed /\ ~Urgent
  /\ conns[k].st = "route"
  /\ conns' = [conns EXCEPT ![k].st = "handle"]
  /\ event' = HandlerEvent(conns[k].ctx)
  /\ UNCHANGED << dispatchVars, pureVars, modelVars, impl, cfgPort, servers, httpServer, context, ctxBuilt, alive,
                  destroyed, sockets, calls, extPort, crashed, invocations,
                  resolvedPort, preRestartCtx >>

\* single: handleRequest answers 503 without a context, and otherwise calls the
\* matched controller's handler with the context
SingleRoute(k) ==
  /\ impl = "single" /\ ~crashed /\ ~Urgent
  /\ conns[k].st = "recv"
  /\ IF context = 0
     THEN /\ conns' = [conns EXCEPT ![k].st = "idle"]
          /\ event' = [NoEvent EXCEPT !.kind = "unready"]
     ELSE /\ conns' = [conns EXCEPT ![k].st = "handle", ![k].ctx = context]
          /\ event' = HandlerEvent(context)
  /\ UNCHANGED << dispatchVars, pureVars, modelVars, impl, cfgPort, servers, httpServer, context, ctxBuilt, alive,
                  destroyed, sockets, calls, extPort, crashed, invocations,
                  resolvedPort, preRestartCtx >>

\* the handler has written its response; the connection stays open (keep-alive)
Respond(k) ==
  /\ ~crashed /\ ~Urgent
  /\ conns[k].st = "handle"
  /\ conns' = [conns EXCEPT ![k].st = "idle", ![k].ctx = 0]
  /\ event' = NoEvent
  /\ UNCHANGED << dispatchVars, pureVars, modelVars, impl, cfgPort, servers, httpServer, context, ctxBuilt, alive,
                  destroyed, sockets, calls, extPort, crashed, invocations,
                  resolvedPort, preRestartCtx >>

\* a connection without a request in flight ends (the client closes it, or the
\* socket was destroyed): 'close' removes it from `sockets`
ConnClose(k) ==
  /\ ~crashed /\ ~Urgent
  /\ conns[k].st = "idle"
  /\ conns' = [conns EXCEPT ![k] = NoConn]
  /\ sockets' = sockets \ {k}
  /\ event' = NoEvent
  /\ UNCHANGED << dispatchVars, pureVars, modelVars, impl, cfgPort, servers, httpServer, context, ctxBuilt, alive,
                  destroyed, calls, extPort, crashed, invocations, resolvedPort, preRestartCtx >>

\* ---------------------------------------------------------------- other processes
\* another process binds the port this server is configured for while it is
\* free, or releases it
ExternalBind ==
  /\ ~crashed /\ ~Urgent
  /\ extPort = 0
  /\ cfgPort # 0
  /\ PortFree(cfgPort)
  /\ extPort' = cfgPort
  /\ event' = NoEvent
  /\ UNCHANGED << dispatchVars, pureVars, modelVars, impl, cfgPort, servers, httpServer, context, ctxBuilt, alive,
                  destroyed, sockets, conns, calls, crashed, invocations,
                  resolvedPort, preRestartCtx >>

ExternalRelease ==
  /\ ~crashed /\ ~Urgent
  /\ extPort # 0
  /\ extPort' = 0
  /\ event' = NoEvent
  /\ UNCHANGED << dispatchVars, pureVars, modelVars, impl, cfgPort, servers, httpServer, context, ctxBuilt, alive,
                  destroyed, sockets, conns, calls, crashed, invocations,
                  resolvedPort, preRestartCtx >>

\* ---------------------------------------------------------------- specification
\* every step but a caller's and a request's lazy context: continuations,
\* connections, other processes
StepCore ==
  \/ \E c \in CallIds : TodoStartListen(c)
  \/ \E c \in CallIds : TodoListening(c)
  \/ \E c \in CallIds : TodoProbe(c)
  \/ \E c \in CallIds : TodoStopClose(c)
  \/ \E c \in CallIds : TodoStopClosed(c)
  \/ \E c \in CallIds : NotesStart(c)
  \/ \E c \in CallIds : NotesStartBuild(c)
  \/ \E c \in CallIds : NotesBound(c)
  \/ \E c \in CallIds : NotesStop(c)
  \/ \E c \in CallIds : NotesStopClosed(c)
  \/ \E c \in CallIds : SingleStart(c)
  \/ \E c \in CallIds : SingleStartBuild(c)
  \/ \E c \in CallIds : SingleBound(c)
  \/ \E c \in CallIds : SingleStop(c)
  \/ \E c \in CallIds : SingleStopClosed(c)
  \/ \E k \in ConnIds, s \in ServerIds : Connect(k, s)
  \/ \E k \in ConnIds : TodoRoute(k)
  \/ \E k \in ConnIds : NotesEnsureContext(k)
  \/ \E k \in ConnIds : NotesRoute(k)
  \/ \E k \in ConnIds : SingleRoute(k)
  \/ \E k \in ConnIds : Respond(k)
  \/ \E k \in ConnIds : ConnClose(k)
  \/ ExternalBind
  \/ ExternalRelease

\* callers that do not wait for one another
Next ==
  \/ \E c \in CallIds, op \in {"start", "stop", "restart"} : Invoke(c, op)
  \/ StepCore
  \/ \E k \in ConnIds : NotesContextBuilt(k)

Spec == Init /\ [][Next]_vars

\* a caller that awaits each call before it makes the next one
InvokeSeq(op) == Pending = {} /\ Invoke(1, op)

\* (with such a caller no request ever finds `context` unset, SeqContextReady, so
\* ensureContext never builds one)
NextSeq ==
  \/ \E op \in {"start", "stop", "restart"} : InvokeSeq(op)
  \/ StepCore

SpecSeq == Init /\ [][NextSeq]_vars

SeqContextReady == \A k \in ConnIds : conns[k].st # "build"

\* the todo server alone, with a caller that awaits each call and a client that
\* keeps sending requests, and with no other process taking the port. Node's
\* event loop runs every continuation that is ready: the listen and close
\* callbacks, the synchronous prefix of a call, the next waitForHealth attempt.
TodoStep ==
  \/ \E c \in CallIds : TodoStartListen(c)
  \/ \E c \in CallIds : TodoListening(c)
  \/ \E c \in CallIds : TodoProbe(c)
  \/ \E c \in CallIds : TodoStopClose(c)
  \/ \E c \in CallIds : TodoStopClosed(c)

NextTodo ==
  \/ \E op \in {"start", "stop", "restart"} : InvokeSeq(op)
  \/ TodoStep
  \/ \E k \in ConnIds, s \in ServerIds : Connect(k, s)
  \/ \E k \in ConnIds : TodoRoute(k)
  \/ \E k \in ConnIds : Respond(k)
  \/ \E k \in ConnIds : ConnClose(k)

\* createServer(config) of the todo example
InitTodo == Init /\ impl = "todo"

SpecTodoFair ==
  /\ InitTodo
  /\ [][NextTodo]_vars
  /\ WF_vars(TodoStep)

\* ---------------------------------------------------------------- dispatch
MaxRoutes == 2

Methods == {"GET", "POST"}
\* a pattern is the sequence of its path segments; a segment of ParamSegs is a
\* named group (`:id`), any other a literal
ParamSegs == {":id"}
Patterns == {<< "todos" >>, << "todos", "7" >>, << "todos", ":id" >>}
\* request paths: /todos, /todos/7, /todos/x, /todos/ and /health
Paths == {<< "todos" >>, << "todos", "7" >>, << "todos", "x" >>,
          << "todos", "" >>, << "health" >>}
Queries == {"", "limit=5", "limit=x"}
\* request bodies: none, one the body schema accepts, one it rejects
Bodies == {"", "{title}", "{}"}

\* a zod schema is the set of inputs its parse accepts; a controller may have none
NoSchema == [defined |-> FALSE, accepts |-> {}]
IdSchema == [defined |-> TRUE, accepts |-> {"7"}]
LimitSchema == [defined |-> TRUE, accepts |-> {"", "limit=5"}]
CreateSchema == [defined |-> TRUE, accepts |-> {"{title}"}]

HasGroup(pattern) == \E i \in 1..Len(pattern) : pattern[i] \in ParamSegs

\* a route: controller.schema.method, the URLPattern built from its path, and the
\* controller's params, query and body schemas (the body schema is applied by
\* the controller's handler); GET controllers declare no body, POST controllers
\* no query
RouteSet ==
  {rt \in [method : Methods, pattern : Patterns,
           params : {NoSchema, IdSchema}, query : {NoSchema, LimitSchema},
           body : {NoSchema, CreateSchema}] :
     /\ rt.params.defined => HasGroup(rt.pattern)
     /\ rt.body.defined => rt.method = "POST"
     /\ rt.query.defined => rt.method = "GET"}

RouteTables == UNION {[1..n -> RouteSet] : n \in 0..MaxRoutes}

Requests ==
  [method : {"GET"}, hasUrl : {TRUE}, path : Paths, query : Queries,
   body : {""}]
  \cup [method : {"POST"}, hasUrl : {TRUE}, path : Paths, query : {""},
         body : Bodies \ {""}]
  \cup [method : Methods, hasUrl : {FALSE}, path : {<< >>}, query : {""},
         body : {""}]

\* URLPattern's pathname match: as many segments as the pattern, a literal segment
\* equal to the path's, a named group any non-empty segment
PatternMatches(pattern, path) ==
  /\ Len(pattern) = Len(path)
  /\ \A i \in 1..Len(pattern) :
       IF pattern[i] \in ParamSegs THEN path[i] # "" ELSE pattern[i] = path[i]

\* `route.method !== request.method` -> continue; `!match` -> continue
RouteMatches(route, r) ==
  route.method = r.method /\ PatternMatches(route.pattern, r.path)

\* (a scan that keeps the last route that matches)
ScanKeepsLast(rs, r, i) ==
  LET hits == {j \in i..Len(rs) : RouteMatches(rs[j], r)} IN
    IF hits = {} THEN 0 ELSE CHOOSE j \in hits : \A k \in hits : k <= j

\* the scan of the route table from index i on: `for (const route of routes)`,
\* `routes.find(...)`; 0 when the table is exhausted
RECURSIVE Scan(_, _, _)
Scan(rs, r, i) ==
  IF i > Len(rs) THEN 0
  ELSE IF RouteMatches(rs[i], r) THEN i
  ELSE Scan(rs, r, i + 1)

\* match.pathname.groups: the segments the named groups matched
Groups(pattern, path) ==
  {path[i] : i \in {j \in 1..Len(pattern) : pattern[j] \in ParamSegs}}

\* schema.params / schema.query parse what the request carries
ParamsOk(route, r) ==
  route.params.defined =>
    \A g \in Groups(route.pattern, r.path) : g \in route.params.accepts
QueryOk(route, r) ==
  route.query.defined => r.query \in route.query.accepts


\* the controller's handler applies its body schema to the request body
\* (getBodyFromRequest(request, schema); CreateTodoSchema.parse(body))
BodyOk(route, r) ==
  route.body.defined => r.body \in route.body.accepts

\* ---- responses
\* the body of a response: the JSON envelope { error, code, details? } of
\* sendJson, a handler's own payload, or nothing (`response.end()`)
EmptyBody == [json |-> FALSE, error |-> "", code |-> "", details |-> FALSE]
Payload == [json |-> TRUE, error |-> "", code |-> "", details |-> FALSE]
Envelope(error, code, details) ==
  [json |-> TRUE, error |-> error, code |-> code, details |-> details]

\* new Error(message), message being internal detail
Messages == {"ECONNREFUSED 10.0.0.7", "undefined is not a function"}
OtherErrors == {[kind |-> "other", status |-> 0, code |-> "", message |-> m] :
                  m \in Messages}

\* ZodError of a failed schema.parse (todo); ValidationError of parseParams,
\* parseQuery and getBodyFromRequest (notes)
ZodError == [kind |-> "zod", status |-> 0, code |-> "", message |-> "zod issues"]
ValidationError(message) ==
  [kind |-> "validation", status |-> 400, code |-> "VALIDATION_FAILED",
   message |-> message]

\* the domain errors a model throws: AppError subclasses NotFoundError and
\* ConflictError (todo), ApplicationError subclass NotFoundError (notes)
AppErrors ==
  IF impl = "todo"
  THEN {[kind |-> "app", status |-> 404, code |-> "NOT_FOUND",
         message |-> "Todo not found"],
        [kind |-> "app", status |-> 409, code |-> "CONFLICT",
         message |-> "Todo title must be unique"]}
  ELSE {[kind |-> "app", status |-> 404, code |-> "NOT_FOUND",
         message |-> "Note not found"]}

\* (an error translation that reports what was thrown)
handleHttpErrorEchoes(e) ==
  << 500, Envelope(e.message, "INTERNAL_SERVER_ERROR", FALSE) >>

\* todo handleHttpError(response, error): << status, body >>
handleHttpError(e) ==
  IF e.kind = "zod"
  THEN << 400, Envelope("Validation failed", "VALIDATION_ERROR", TRUE) >>
  ELSE IF e.kind = "app"
  THEN << e.status, Envelope(e.message, e.code, FALSE) >>
  ELSE << 500, Envelope("Internal server error", "INTERNAL_SERVER_ERROR", FALSE) >>

\* notes handleRequest's catch block: << status, body >>
HandleRequestCatch(e) ==
  IF e.kind = "validation"
  THEN << e.status, Envelope(e.message, e.code, TRUE) >>
  ELSE IF e.kind = "app"
  THEN << e.status, Envelope(e.message, e.code, FALSE) >>
  ELSE << 500, Envelope("Internal server error", "INTERNAL_ERROR", FALSE) >>

ErrorResponse(e) ==
  IF impl = "todo" THEN handleHttpError(e) ELSE HandleRequestCatch(e)

\* what the body schema's failure throws inside the handler
BodyError ==
  IF impl = "todo" THEN ZodError ELSE ValidationError("Invalid request body")

\* what a matched controller's handler may do with a request: how much of a
\* response it writes ("none", "head": headers only, "full": written and ended)
\* and what it throws. It applies its body schema first.
HandlerRuns(route, r) ==
  IF ~BodyOk(route, r) THEN {[wrote |-> "none", threw |-> BodyError]}
  ELSE {[wrote |-> "full", threw |-> NoThrow],
        [wrote |-> "none", threw |-> NoThrow]}
       \cup [wrote : {"none"}, threw : AppErrors]
       \cup [wrote : {"none", "head", "full"}, threw : OtherErrors]

\* a server that has been started: its listener is bound and it holds the context
\* start() built (the single-listener server may have lost it to an overlapping
\* stop()); the route table is the one buildRoutes / routes.ts declared
InitDispatch ==
  /\ impl \in Impls
  /\ cfgPort = 1
  /\ servers = [s \in ServerIds |->
                  IF s = 1 THEN [made |-> TRUE, listening |-> TRUE, port |-> 1]
                  ELSE NoServer]
  /\ httpServer = 1
  /\ context \in (IF impl = "single" THEN {0, 1} ELSE {1})
  /\ ctxBuilt = 1
  /\ alive = (impl = "todo")
  /\ destroyed = 0
  /\ sockets = {}
  /\ conns = [k \in ConnIds |-> NoConn]
  /\ calls = [c \in CallIds |-> Idle]
  /\ extPort = 0
  /\ crashed = FALSE
  /\ invocations = 1
  /\ event = NoEvent
  /\ resolvedPort = 1
  /\ preRestartCtx = 0
  /\ routes \in RouteTables
  /\ req = NoRequest
  /\ rpc = "idle"
  /\ matched = 0
  /\ invoked = << >>
  /\ responses = << >>
  /\ bodies = << >>
  /\ thrown = NoThrow
  /\ headersSent = FALSE
  /\ unhandled = FALSE
  /\ PureIdle
  /\ ModelIdle
  /\ publicBaseUrl = "own"

\* the server's request listener is called with a request (dispatch keeps nothing
\* from one request to the next: a behaviour follows one request)
Receive(r) ==
  /\ rpc = "idle"
  /\ req' = r
  /\ rpc' = "recv"
  /\ matched' = 0
  /\ invoked' = << >>
  /\ responses' = << >>
  /\ bodies' = << >>
  /\ thrown' = NoThrow
  /\ headersSent' = FALSE
  /\ unhandled' = FALSE
  /\ UNCHANGED << lifecycleVars, pureVars, modelVars, routes >>

\* the dispatch ends with a response and no handler called: sendJson(response,
\* status, body), or writeHead(status) and end() for an empty body
Reply(status, body) ==
  /\ responses' = Append(responses, status)
  /\ bodies' = Append(bodies, body)
  /\ headersSent' = TRUE
  /\ invoked' = invoked
  /\ rpc' = "done"
  /\ UNCHANGED << thrown, unhandled >>

\* the answer the error translation gives an error thrown before the handler
ReplyError(e) == Reply(ErrorResponse(e)[1], ErrorResponse(e)[2])

\* the dispatch calls the handler of route i
CallHandler(i) ==
  /\ invoked' = Append(invoked, i)
  /\ responses' = responses
  /\ rpc' = "handler"
  /\ UNCHANGED << bodies, thrown, headersSent, unhandled >>

\* todo createRouter, up to `await route.controller`: 400 without a URL, then the
\* loop over the routes, 404 when it falls through
CreateRouterScan ==
  /\ impl = "todo" /\ rpc = "recv"
  /\ UNCHANGED << lifecycleVars, pureVars, modelVars, routes, req >>
  /\ IF ~req.hasUrl
     THEN /\ matched' = 0
          /\ Reply(400, Envelope("Invalid request URL", "INVALID_REQUEST", FALSE))
     ELSE LET i == Scan(routes, req, 1) IN
            /\ matched' = i
            /\ IF i = 0 THEN Reply(404, Envelope("Not found", "NOT_FOUND", FALSE))
               ELSE /\ rpc' = "matched"
                    /\ UNCHANGED << invoked, responses, bodies, thrown,
                                    headersSent, unhandled >>

\* todo createRouter, after `await route.controller`: params and query are
\* parsed, a ZodError is caught and handleHttpError answers 400; otherwise the
\* controller's handler is called
CreateRouterCall ==
  /\ impl = "todo" /\ rpc = "matched"
  /\ UNCHANGED << lifecycleVars, pureVars, modelVars, routes, req, matched >>
  /\ IF ParamsOk(routes[matched], req) /\ QueryOk(routes[matched], req)
     THEN CallHandler(matched)
     ELSE ReplyError(ZodError)

\* handleController's parseParams, then parseQuery
ParseError(route, r) ==
  IF ~ParamsOk(route, r) THEN ValidationError("Invalid request parameters")
  ELSE ValidationError("Invalid query parameters")

\* notes handleRequest, once ensureContext returned the context: 400 without a
\* URL, routes.find, 404, then handleController: parseParams and parseQuery throw
\* a ValidationError (400), otherwise the handler is called
HandleRequest ==
  /\ impl = "notes" /\ rpc = "recv"
  /\ context # 0
  /\ UNCHANGED << lifecycleVars, pureVars, modelVars, routes, req >>
  /\ IF ~req.hasUrl THEN matched' = 0 /\ Reply(400, EmptyBody)
     ELSE LET i == Scan(routes, req, 1) IN
            /\ matched' = i
            /\ IF i = 0 THEN Reply(404, EmptyBody)
               ELSE IF ParamsOk(routes[i], req) /\ QueryOk(routes[i], req)
               THEN CallHandler(i)
               ELSE ReplyError(ParseError(routes[i], req))

\* single-listener handleRequest: as above, with 503 between the 404 and the
\* parsing when the server holds no context
SingleHandleRequest ==
  /\ impl = "single" /\ rpc = "recv"
  /\ UNCHANGED << lifecycleVars, pureVars, modelVars, routes, req >>
  /\ IF ~req.hasUrl THEN matched' = 0 /\ Reply(400, EmptyBody)
     ELSE LET i == Scan(routes, req, 1) IN
            /\ matched' = i
            /\ IF i = 0 THEN Reply(404, EmptyBody)
               ELSE IF context = 0 THEN Reply(503, EmptyBody)
               ELSE IF ParamsOk(routes[i], req) /\ QueryOk(routes[i], req)
               THEN CallHandler(i)
               ELSE ReplyError(ParseError(routes[i], req))

\* the awaited handler settles. What it wrote and ended is a response; an error
\* it threw reaches the catch block (handleHttpError, handleRequest's catch),
\* whose sendJson answers when nothing was written and throws
\* ERR_HTTP_HEADERS_SENT when the headers already went out: nothing catches
\* that (createRouter's promise is dropped; the listener's .catch calls sendJson
\* again), so it ends as an unhandled rejection
HandlerSettles ==
  /\ rpc = "handler"
  /\ \E h \in HandlerRuns(routes[matched], req) :
       LET written == IF h.wrote = "full" THEN Append(responses, 200)
                      ELSE responses
           payloads == IF h.wrote = "full" THEN Append(bodies, Payload)
                       ELSE bodies
           caught   == h.threw # NoThrow
           answers  == caught /\ h.wrote = "none"
       IN /\ thrown' = h.threw
          /\ responses' = IF answers
                          THEN Append(written, ErrorResponse(h.threw)[1])
                          ELSE written
          /\ bodies' = IF answers
                       THEN Append(payloads, ErrorResponse(h.threw)[2])
                       ELSE payloads
          /\ headersSent' = (h.wrote # "none" \/ answers)
          /\ unhandled' = (caught /\ h.wrote # "none")
  /\ rpc' = "done"
  /\ UNCHANGED << lifecycleVars, pureVars, modelVars, routes, req, matched, invoked >>

NextDispatch ==
  \/ \E r \in Requests : Receive(r)
  \/ CreateRouterScan
  \/ CreateRouterCall
  \/ HandleRequest
  \/ SingleHandleRequest
  \/ HandlerSettles

SpecDispatch == InitDispatch /\ [][NextDispatch]_vars

\* ---------------------------------------------------------------- OpenAPI
\* a server that has been started, as in InitDispatch
Started ==
  /\ impl \in Impls
  /\ cfgPort = 1
  /\ servers = [s \in ServerIds |->
                  IF s = 1 THEN [made |-> TRUE, listening |-> TRUE, port |-> 1]
                  ELSE NoServer]
  /\ httpServer = 1
  /\ context = 1
  /\ ctxBuilt = 1
  /\ alive = (impl = "todo")
  /\ destroyed = 0
  /\ sockets = {}
  /\ conns = [k \in ConnIds |-> NoConn]
  /\ calls = [c \in CallIds |-> Idle]
  /\ extPort = 0
  /\ crashed = FALSE
  /\ invocations = 1
  /\ event = NoEvent
  /\ resolvedPort = 1
  /\ preRestartCtx = 0

\* no request is being dispatched
DispatchIdle ==
  /\ routes = << >>
  /\ req = NoRequest
  /\ rpc = "idle"
  /\ matched = 0
  /\ invoked = << >>
  /\ responses = << >>
  /\ bodies = << >>
  /\ thrown = NoThrow
  /\ headersSent = FALSE
  /\ unhandled = FALSE

\* the health and documentation routes every server mounts
HealthRoute ==
  [method |-> "GET", pattern |-> << "health" >>, params |-> NoSchema,
   query |-> NoSchema, body |-> NoSchema]
OpenApiRoute ==
  [method |-> "GET",
   pattern |-> IF impl = "todo" THEN << "openapi.json" >> ELSE << "openapi" >>,
   params |-> NoSchema, query |-> NoSchema, body |-> NoSchema]

\* the route table the dispatcher serves, given the declared controllers: the
\* todo server's routes.ts is the table itself (its health and documentation
\* routes are declared in it); the notes servers put the health controller
\* before documentedControllers and the documentation controller after them
Mounted(cs) ==
  IF impl = "todo" THEN cs
  ELSE << HealthRoute >> \o cs \o << OpenApiRoute >>

\* the controllers the document is generated from: the routes themselves
\* (todo), documentedControllers (notes)
Documented(cs) == cs

\* route.pathname.replace(/:([a-zA-Z0-9_]+)/g, "{$1}"); the notes controllers
\* declare schema.path in this form, and toUrlPatternPath turns it into the
\* pattern
OpenApiPath(pattern) ==
  [i \in 1..Len(pattern) |->
     IF pattern[i] \in ParamSegs THEN "{id}" ELSE pattern[i]]

\* method.toLowerCase()
LowerCase(method) == IF method = "GET" THEN "get" ELSE "post"

\* `paths[path][method] = operation`: the entry for that path and method is
\* created or replaced. `paths` is kept as the set of its
\* (path, method, operation) entries; the operation is named by its controller.
Assign(paths, c) ==
  {e \in paths : ~(/\ e.path = OpenApiPath(c.pattern)
                   /\ e.method = LowerCase(c.method))}
  \cup {[path |-> OpenApiPath(c.pattern), method |-> LowerCase(c.method),
         operation |-> c]}

\* the loop `for (const entry of pathEntries)` / `for (const controller of
\* controllers)` from index i on
RECURSIVE BuildPaths(_, _, _)
BuildPaths(cs, i, paths) ==
  IF i > Len(cs) THEN paths
  ELSE BuildPaths(cs, i + 1, Assign(paths, cs[i]))

\* createOpenApiDocument() / generateOpenApiDocument(config, controllers)
GenerateOpenApiDocument(cs) == BuildPaths(Documented(cs), 1, {})

\* the declared controllers: the todo table starts with its health and
\* documentation routes
InitOpenApi ==
  /\ Started
  /\ DispatchIdle
  /\ controllers \in (IF impl = "todo"
                      THEN {<< HealthRoute, OpenApiRoute >> \o t : t \in RouteTables}
                      ELSE RouteTables)
  /\ document = NoDocument
  /\ mPattern = << >>
  /\ mPath = << >>
  /\ mResult = NoMatch
  /\ ModelIdle
  /\ publicBaseUrl = "own"

\* GET /openapi.json (notes: /openapi) is handled: the document is generated
\* from the controllers as declared now; `served` keeps the route table the
\* dispatcher serves at that time
HandleOpenApi ==
  /\ document' = [generated |-> TRUE, served |-> Mounted(controllers),
                  paths |-> GenerateOpenApiDocument(controllers)]
  /\ UNCHANGED << lifecycleVars, dispatchVars, modelVars, controllers, mPattern, mPath,
                  mResult >>

\* a route is taken out of the declared table (the server is built again from
\* it); the next document is generated from what is left
RemoveRoute(i) ==
  /\ document.generated
  /\ i \in 1..Len(controllers)
  /\ controllers' = SubSeq(controllers, 1, i - 1)
                    \o SubSeq(controllers, i + 1, Len(controllers))
  /\ document' = NoDocument
  /\ UNCHANGED << lifecycleVars, dispatchVars, modelVars, mPattern, mPath, mResult >>

NextOpenApi ==
  \/ HandleOpenApi
  \/ \E i \in 1..(MaxRoutes + 2) : RemoveRoute(i)

SpecOpenApi == InitOpenApi /\ [][NextOpenApi]_vars

\* ---------------------------------------------------------------- path matching
MaxSegments == 2

\* what comes between the slashes of a request path: /todos/ is
\* << "todos", "" >>, //7 is << "", "7" >>
Segments == {"todos", "Todos", "7", ""}
MatchPaths == UNION {[1..n -> Segments] : n \in 1..MaxSegments}

\* split('/').filter(Boolean)
FilterBoolean(segs) == SelectSeq(segs, LAMBDA x : x # "")

\* the routing guide's matchRoute(pathname, routePattern): null, or the params
\* it extracted
matchRoute(pathname, routePattern) ==
  LET pathSegments == FilterBoolean(pathname)
      patternSegments == FilterBoolean(routePattern)
  IN IF Len(pathSegments) # Len(patternSegments)
     THEN [null |-> TRUE, params |-> {}]
     ELSE IF \E i \in 1..Len(patternSegments) :
               /\ patternSegments[i] \notin ParamSegs
               /\ patternSegments[i] # pathSegments[i]
     THEN [null |-> TRUE, params |-> {}]
     ELSE [null |-> FALSE, params |-> Groups(patternSegments, pathSegments)]

InitMatch ==
  /\ Started
  /\ DispatchIdle
  /\ controllers = << >>
  /\ document = NoDocument
  /\ mPattern \in Patterns
  /\ mPath \in MatchPaths
  /\ mResult = NoMatch
  /\ ModelIdle
  /\ publicBaseUrl = "own"

\* the path is given to route.pattern.exec({ pathname }) and to matchRoute
Match ==
  /\ ~mResult.applied
  /\ mResult' =
       [applied |-> TRUE,
        url |-> PatternMatches(mPattern, mPath),
        groups |-> IF PatternMatches(mPattern, mPath)
                   THEN Groups(mPattern, mPath) ELSE {},
        guide |-> ~matchRoute(mPath, mPattern).null,
        params |-> matchRoute(mPath, mPattern).params]
  /\ UNCHANGED << lifecycleVars, dispatchVars, modelVars, controllers, document, mPattern,
                  mPath >>

NextMatch == Match

SpecMatch == InitMatch /\ [][NextMatch]_vars

\* ---------------------------------------------------------------- observations
\* the context counts as live while the todo context's alive flag is set, or
\* while the notes closure holds one
ContextLive == IF impl = "todo" THEN alive ELSE context # 0

\* the status a GET /health sent now to the server's address is answered with
\* (0: nothing answers): the todo and notes health controllers always send 200,
\* the single-listener server answers 503 before it looks at the route's handler
\* when it holds no context
HealthAnswer ==
  IF CurrentServer = 0 \/ ~servers[CurrentServer].listening THEN 0
  ELSE IF impl = "single" /\ context = 0 THEN 503
  ELSE 200

StartResolved ==
  event.kind = "settled" /\ event.op = "start" /\ event.outcome = "resolved"
StopResolved ==
  event.kind = "settled" /\ event.op = "stop" /\ event.outcome = "resolved"

\* ---------------------------------------------------------------- claims
\* C1: a stop() made when the server is Stopped resolves without error and
\* changes nothing: the listener stays closed, the alive flag and the context are
\* as they were, and the context is not destroyed again.
C1_StopWhenStoppedIsNoop ==
  (event.kind = "settled" /\ event.op = "stop" /\ event.st0 = "Stopped") =>
    /\ event.outcome = "resolved"
    /\ Listening = {}
    /\ alive = event.snap.alive
    /\ context = event.snap.context
    /\ destroyed = event.snap.destroyed

\* C2: once a start() has resolved with the listener bound to port p, every later
\* bind of a caller that awaits its calls (stop() then start(), or restart()) is
\* to port p, also when the configured port was 0.
C2_RebindsSamePort ==
  resolvedPort # 0 => \A s \in Listening : servers[s].port = resolvedPort

\* a start() resolved on a stopped notes server that had been started before on
\* an OS-chosen port
C2_Witness ==
  /\ impl = "notes"
  /\ StartResolved
  /\ event.st0 = "Stopped"
  /\ event.snap.ctxBuilt >= 1
  /\ resolvedPort \in EphemeralPorts
  /\ Listening # {}

\* C3: whenever a start() has resolved, the listener is bound and accepting, the
\* context is built, and GET /health is answered 200.
C3_StartResolvesReady ==
  StartResolved =>
    /\ CurrentServer # 0
    /\ servers[CurrentServer].listening
    /\ context # 0
    /\ HealthAnswer = 200

\* C4: whenever a stop() has resolved, no listener holds a port, no tracked socket
\* and no open connection is left, and the context has been released.
C4_StopResolvesReleased ==
  StopResolved =>
    /\ Listening = {}
    /\ sockets = {}
    /\ \A k \in ConnIds : ~conns[k].open
    /\ ~ContextLive

\* C5: with no lifecycle call pending there is a live context exactly when there
\* is a listening listener, there is never more than one listener, and no request
\* ever has a context built for it.
C5_OneContextPerListener ==
  /\ Cardinality(Listening) <= 1
  /\ event.kind # "lazy"
  /\ Pending = {} => (ContextLive <=> Listening # {})

\* C6: a start() that overlapped another start(), or a stop() that overlapped
\* another stop(), resolves without error; one listener is bound and at most one
\* context built since it was called, and the context is destroyed at most once.
C6_SameTransitionSerialized ==
  (event.kind = "settled" /\ event.op \in {"start", "stop"} /\ event.twin) =>
    /\ event.outcome = "resolved"
    /\ Cardinality(Listening) <= 1
    /\ ctxBuilt <= event.snap.ctxBuilt + 1
    /\ destroyed <= event.snap.destroyed + 1

\* C7: a start() made when the server is not Stopped fails, and leaves the
\* listener and the context as they were.
C7_StartWhenStartedFails ==
  (event.kind = "settled" /\ event.op = "start" /\ event.st0 # "Stopped") =>
    /\ event.outcome = "rejected"
    /\ Listening = event.snap.listening
    /\ context = event.snap.context
    /\ alive = event.snap.alive

\* C8: when the listener cannot bind, start() rejects and the server is Stopped
\* again: nothing listens, no context is live, the alive flag is false.
C8_BindFailureBackToStopped ==
  event.cause = "bind" =>
    /\ event.kind = "settled"
    /\ event.outcome = "rejected"
    /\ Listening = {}
    /\ ~ContextLive
    /\ ~alive

\* C9: a handler called after a restart() has resolved never receives the
\* context object the server held when that restart() was called.
C9_RestartRebuildsContext ==
  (event.kind = "handler" /\ preRestartCtx # 0) => event.ctx # preRestartCtx

\* the first route in declaration order whose method and pattern match the
\* request being dispatched (0: no route matches)
FirstMatching ==
  LET hits == {i \in 1..Len(routes) : RouteMatches(routes[i], req)} IN
    IF hits = {} THEN 0 ELSE CHOOSE i \in hits : \A j \in hits : i <= j

\* the request passes the schemas of the route it matches first
ValidForFirst ==
  /\ FirstMatching # 0
  /\ ParamsOk(routes[FirstMatching], req)
  /\ QueryOk(routes[FirstMatching], req)

ViolatesSchema ==
  /\ matched # 0
  /\ ~(/\ ParamsOk(routes[matched], req)
       /\ QueryOk(routes[matched], req)
       /\ BodyOk(routes[matched], req))

\* C11: a finished dispatch, at a server that holds a context, of a request whose
\* path parameters, query or body violates the matched route's schema has
\* answered 400 with code "VALIDATION_FAILED" and has not invoked the route's
\* handler.
C11_ViolationIs400HandlerNotInvoked ==
  (rpc = "done" /\ context # 0 /\ ViolatesSchema) =>
    /\ responses = << 400 >>
    /\ bodies[1].code = "VALIDATION_FAILED"
    /\ invoked = << >>

\* C12: a finished dispatch whose handler wrote something or threw has written
\* and ended exactly one response (the handler returned after writing, threw
\* before writing, or threw after it had begun to write).
C12_ExactlyOneTerminalResponse ==
  (rpc = "done" /\ (headersSent \/ thrown # NoThrow)) => Len(responses) = 1

\* C13: whenever a request is taken up while the server holds no context, it is
\* answered 503: no handler is invoked for it and no context is built for it.
C13_NoContextAnswers503 ==
  [][\A k \in ConnIds :
       (conns[k].st = "recv" /\ conns'[k].st # "recv" /\ context = 0) =>
         /\ event'.kind = "unready"
         /\ conns'[k].st = "idle"
         /\ ctxBuilt' = ctxBuilt]_vars

\* the body is a JSON object with string fields error and code
WellFormedEnvelope(body) == body.json /\ body.error # "" /\ body.code # ""

\* C14: every failure response of a dispatch carries the status of its failure
\* kind (400 without a URL, 404 without a matching route, 503 without a
\* context, 400 for a schema violation, the domain error's own status, 500 for
\* any other error) and a JSON body with string fields error and code.
C14_FailuresAreJsonEnvelopes ==
  /\ \A n \in 1..Len(responses) :
       responses[n] # 200 => WellFormedEnvelope(bodies[n])
  /\ (rpc = "done" /\ ~req.hasUrl) => responses = << 400 >>
  /\ (rpc = "done" /\ req.hasUrl /\ matched = 0) => responses = << 404 >>
  /\ (rpc = "done" /\ invoked = << >> /\ matched # 0) =>
       responses \in {<< 400 >>, << 503 >>}
  /\ (rpc = "done" /\ thrown.kind = "app" /\ ~unhandled) =>
       responses = << thrown.status >>
  /\ (rpc = "done" /\ thrown.kind = "other" /\ ~unhandled) =>
       responses = << 500 >>

\* the one body a client is shown for an unexpected error
GenericFailure ==
  IF impl = "todo"
  THEN Envelope("Internal server error", "INTERNAL_SERVER_ERROR", FALSE)
  ELSE Envelope("Internal server error", "INTERNAL_ERROR", FALSE)

HealthReport ==
  IF impl = "todo" THEN [status |-> "ok", alive |-> alive]
  ELSE [status |-> "healthy"]

\* C16: whenever a GET /health would be answered, it is answered by the health
\* handler (200, never the 503 of a missing context) and the body's alive field
\* is true exactly when the lifecycle state is Running.
C16_HealthReportsRunning ==
  HealthAnswer # 0 =>
    /\ HealthAnswer = 200
    /\ "alive" \in DOMAIN HealthReport
    /\ HealthReport.alive <=> (ServerState = "Running")

\* a GET /health sent now to the address the first start() resolved on is
\* answered 200 with alive: true
HealthyAtKnownAddress ==
  /\ resolvedPort # 0
  /\ CurrentServer # 0
  /\ servers[CurrentServer].listening
  /\ servers[CurrentServer].port = resolvedPort
  /\ HealthAnswer = 200
  /\ "alive" \in DOMAIN HealthReport
  /\ HealthReport.alive

\* a restart() of a Running server is pending
RestartPending ==
  \E c \in CallIds : calls[c].op = "restart" /\ calls[c].st0 = "Running"

RestartResolved ==
  /\ event.kind = "settled" /\ event.op = "restart"
  /\ event.outcome = "resolved" /\ event.st0 = "Running"

\* C17 (todo server): once restart() has been called on a Running server, a
\* GET /health to the address learned before the restart is eventually answered
\* 200 with alive: true; it is so answered when restart() has resolved; and the
\* server never listens on another port than the one it first resolved on.
C17_HealthReturnsAfterRestart ==
  /\ RestartPending ~> HealthyAtKnownAddress
  /\ [](RestartResolved => HealthyAtKnownAddress)
  /\ []((resolvedPort # 0 /\ servers[1].listening) =>
          servers[1].port = resolvedPort)

\* restart() of a Running todo server has resolved and the server answers
\* GET /health on the port it had
C17_Witness ==
  /\ impl = "todo"
  /\ RestartResolved
  /\ HealthyAtKnownAddress
  /\ destroyed = 1

\* the document has an entry for the path and method of route rt
Documents(rt) ==
  \E e \in document.paths :
    e.path = OpenApiPath(rt.pattern) /\ e.method = LowerCase(rt.method)

\* C18: a generated document has an operation for every route of the table the
\* dispatcher serves, the health and documentation routes included, has no
\* operation for anything else, and has one operation per path and method.
C18_DocumentMatchesMountedRoutes ==
  document.generated =>
    /\ \A i \in 1..Len(document.served) : Documents(document.served[i])
    /\ \A e \in document.paths :
         \E i \in 1..Len(document.served) :
           /\ e.path = OpenApiPath(document.served[i].pattern)
           /\ e.method = LowerCase(document.served[i].method)
    /\ \A e1, e2 \in document.paths :
         (e1.path = e2.path /\ e1.method = e2.method) => e1 = e2

\* the first route of table t declared with the method and pattern of route rt
FirstDeclared(t, rt) ==
  t[CHOOSE i \in 1..Len(t) :
      /\ t[i].method = rt.method /\ t[i].pattern = rt.pattern
      /\ \A j \in 1..(i - 1) :
           ~(t[j].method = rt.method /\ t[j].pattern = rt.pattern)]

\* C19: when routes are declared with the same method and path, the operation the
\* generated document has for that path and method is the first-declared
\* route's, the route the dispatcher's scan stops at.
C19_FirstDeclaredWinsInDocument ==
  document.generated =>
    \A e \in document.paths :
      e.operation = FirstDeclared(document.served, e.operation)

\* the path has as many segments as the pattern, every literal segment of the
\* pattern equals the path's, and every named segment stands against a
\* non-empty component
SegmentwiseMatch ==
  /\ Len(mPath) = Len(mPattern)
  /\ \A i \in 1..Len(mPattern) :
       IF mPattern[i] \in ParamSegs THEN mPath[i] # ""
       ELSE mPattern[i] = mPath[i]

\* C20: a matcher accepts a path for a pattern exactly when the path has the
\* pattern's number of segments and equal literal segments, and what it captures
\* for a named segment is the path's component as it stands; a trailing slash
\* makes a different path.
C20_MatchIsSegmentwise ==
  mResult.applied =>
    /\ mResult.url <=> SegmentwiseMatch
    /\ mResult.guide <=> SegmentwiseMatch
    /\ mResult.url => mResult.groups = Groups(mPattern, mPath)
    /\ mResult.guide => mResult.params = Groups(mPattern, mPath)

\* ------------------------------------------------------------------------
\* Reading and validating a request body: getBodyFromRequest followed by the
\* schema parse of the todo POST handler (todo), getBodyFromRequest over
\* readBody (notes).

\* context.config.maxBodyBytes, scaled down
maxBodyBytes == 2
\* data chunks of one request
MaxChunks == 2
\* bytes of one chunk
MaxChunkBytes == 2

\* the body definition's contentType of a JSON route
DeclaredContentType == "application/json"
\* Content-Type headers a client sends ("" when it sends none)
ContentTypes == {"application/json", "application/json; charset=utf-8",
                 "text/plain", ""}
ChunkSeqs == UNION {[1..n -> 1..MaxChunkBytes] : n \in 0..MaxChunks}

\* String.prototype.includes(DeclaredContentType) on the header; an absent
\* header makes the optional chain undefined
Includes(header) ==
  header \in {"application/json", "application/json; charset=utf-8"}

\* todo ValidationError: an AppError of status 400
TodoValidationError(message) ==
  [kind |-> "app", status |-> 400, code |-> "VALIDATION_ERROR",
   message |-> message]


InitBody == Init /\ impl \in {"todo", "notes"}

\* a POST with a body reaches the handler, which calls getBodyFromRequest
BodyRequest(ct, kind, chunks) ==
  /\ reader.pc \in {"idle", "done"}
  /\ reader' = [NoReader EXCEPT !.pc = "start", !.contentType = ct,
                                !.kind = kind, !.chunks = chunks]
  /\ UNCHANGED << lifecycleVars, dispatchVars, pureVars, store, nextId, ledger,
                  publicBaseUrl >>

BodyThrows(e) ==
  reader' = [reader EXCEPT !.pc = "done", !.status = ErrorResponse(e)[1],
                           !.failure = e.message]

\* todo getBodyFromRequest, one iteration of for await (const chunk of request)
TodoReadChunk ==
  /\ impl = "todo"
  /\ reader.pc = "start"
  /\ reader.read < Len(reader.chunks)
  /\ LET length == reader.chunks[reader.read + 1]
         totalBytes == reader.totalBytes + length
     IN IF totalBytes > maxBodyBytes
        THEN reader' = [reader EXCEPT
               !.pc = "done", !.read = @ + 1, !.totalBytes = totalBytes,
               !.status =
                 ErrorResponse(TodoValidationError("Request body too large"))[1],
               !.failure = "Request body too large"]
        ELSE reader' = [reader EXCEPT !.read = @ + 1,
                                      !.totalBytes = totalBytes,
                                      !.buffered = @ + length]
  /\ UNCHANGED << lifecycleVars, dispatchVars, pureVars, store, nextId, ledger,
                  publicBaseUrl >>

\* todo: the request has ended; JSON.parse of the text, then the handler's
\* CreateTodoSchema.parse(body) and its 201
TodoParseBody ==
  /\ impl = "todo"
  /\ reader.pc = "start"
  /\ reader.read = Len(reader.chunks)
  /\ IF Len(reader.chunks) = 0 THEN BodyThrows(ZodError)
     ELSE IF reader.kind = "malformed"
     THEN BodyThrows(TodoValidationError("Invalid JSON body"))
     ELSE IF reader.kind = "invalid" THEN BodyThrows(ZodError)
     ELSE reader' = [reader EXCEPT !.pc = "done", !.status = 201]
  /\ UNCHANGED << lifecycleVars, dispatchVars, pureVars, store, nextId, ledger,
                  publicBaseUrl >>

\* notes getBodyFromRequest up to the await of readBody
NotesCheckContentType ==
  /\ impl = "notes"
  /\ reader.pc = "start"
  /\ IF ~Includes(reader.contentType)
     THEN BodyThrows(ValidationError("Unsupported content type"))
     ELSE reader' = [reader EXCEPT !.pc = "reading"]
  /\ UNCHANGED << lifecycleVars, dispatchVars, pureVars, store, nextId, ledger,
                  publicBaseUrl >>

\* notes readBody, one "data" event
NotesReadChunk ==
  /\ impl = "notes"
  /\ reader.pc = "reading"
  /\ reader.read < Len(reader.chunks)
  /\ LET length == reader.chunks[reader.read + 1]
     IN reader' = [reader EXCEPT !.read = @ + 1, !.totalBytes = @ + length,
                                 !.buffered = @ + length]
  /\ UNCHANGED << lifecycleVars, dispatchVars, pureVars, store, nextId, ledger,
                  publicBaseUrl >>

\* notes: the "end" event resolves readBody; the rest of getBodyFromRequest
NotesParseBody ==
  /\ impl = "notes"
  /\ reader.pc = "reading"
  /\ reader.read = Len(reader.chunks)
  /\ IF reader.buffered = 0
     THEN BodyThrows(ValidationError("Request body is required"))
     ELSE IF reader.kind = "malformed"
     THEN BodyThrows(ValidationError("Invalid JSON payload"))
     ELSE IF reader.kind = "invalid"
     THEN BodyThrows(ValidationError("Invalid request body"))
     ELSE reader' = [reader EXCEPT !.pc = "done", !.status = 201]
  /\ UNCHANGED << lifecycleVars, dispatchVars, pureVars, store, nextId, ledger,
                  publicBaseUrl >>

NextBody ==
  \/ \E ct \in ContentTypes, kind \in {"valid", "invalid", "malformed"},
        chunks \in ChunkSeqs :
       BodyRequest(ct, kind, chunks)
  \/ TodoReadChunk
  \/ TodoParseBody
  \/ NotesCheckContentType
  \/ NotesReadChunk
  \/ NotesParseBody

SpecBody == InitBody /\ [][NextBody]_vars

\* the body reader has finished with the request
BodyDone == reader.pc = "done"
BodyAccepted == BodyDone /\ reader.failure = ""

\* C21: body validation checks the content type, then that the body is JSON,
\* then the schema; the first check that fails names the failure, so a
\* content type other than the declared one is rejected as unsupported even
\* when the body is valid, and every such failure is a 400
C21_BodyChecksInOrder ==
  (BodyDone /\ reader.totalBytes > 0 /\ reader.totalBytes <= maxBodyBytes) =>
    /\ ~Includes(reader.contentType) =>
         /\ reader.failure = "Unsupported content type"
         /\ reader.status = 400
    /\ (Includes(reader.contentType) /\ reader.kind = "malformed") =>
         /\ reader.failure \in {"Invalid JSON body", "Invalid JSON payload"}
         /\ reader.status = 400
    /\ (Includes(reader.contentType) /\ reader.kind = "invalid") =>
         /\ reader.failure \in {"zod issues", "Invalid request body"}
         /\ reader.status = 400
    /\ (Includes(reader.contentType) /\ reader.kind = "valid") =>
         BodyAccepted

\* C27: getBodyFromRequest accepts a body exactly when the bytes received over
\* all chunks are at most maxBytes: it fails with the 400 "Request body too
\* large" as soon as the running total exceeds maxBytes, never buffers more
\* than maxBytes bytes, and accepts a body of exactly maxBytes bytes
C27_BodyBoundedByMaxBytes ==
  /\ reader.buffered <= maxBodyBytes
  /\ (BodyDone /\ reader.totalBytes > maxBodyBytes) =>
       /\ reader.failure = "Request body too large"
       /\ reader.status = 400
       /\ reader.totalBytes - reader.chunks[reader.read] <= maxBodyBytes
  /\ reader.failure = "Request body too large" =>
       reader.totalBytes > maxBodyBytes
  /\ (/\ BodyDone
      /\ reader.read = Len(reader.chunks)
      /\ reader.totalBytes = maxBodyBytes
      /\ reader.kind = "valid"
      /\ Includes(reader.contentType)) => BodyAccepted

\* ------------------------------------------------------------------------
\* The todo store: the Map of createContext, the todo model functions, and the
\* todo controllers' handlers calling them on the running todo server.

\* todos created in one run (ids handed out)
MaxTodos == 2
TodoIds == 1..MaxTodos
Titles == {"x", "X", "y"}

\* String.prototype.toLowerCase on the titles
toLowerCase(title) == IF title = "X" THEN "x" ELSE title

\* db.todos of createContext over the Map's entries in insertion order
getAll(todos) == todos
Has(todos, id) == \E i \in DOMAIN todos : todos[i].id = id
getById(todos, id) == todos[CHOOSE i \in DOMAIN todos : todos[i].id = id]
\* Map.prototype.set: insert and replace
MapSet(todos, todo) ==
  IF Has(todos, todo.id)
  THEN [i \in DOMAIN todos |-> IF todos[i].id = todo.id THEN todo ELSE todos[i]]
  ELSE Append(todos, todo)
deleteById(todos, id) == SelectSeq(todos, LAMBDA t : t.id # id)

ContextClosed == [kind |-> "other", status |-> 0, code |-> "",
                  message |-> "Context is closed"]
NotFoundError == [kind |-> "app", status |-> 404, code |-> "NOT_FOUND",
                  message |-> "Todo not found"]
ConflictError == [kind |-> "app", status |-> 409, code |-> "CONFLICT",
                  message |-> "Todo title must be unique"]

\* what a model function did: the store it leaves, what it threw, what it
\* returned (a list of todos)
Threw(e) == [store |-> store, threw |-> e, value |-> << >>]
Returned(todos, value) == [store |-> todos, threw |-> NoThrow, value |-> value]

\* (a comparison of titles that tells upper case from lower case)
SameTitleExact(a, b) == a = b

\* todo.title.toLowerCase() === input.title.toLowerCase()
SameTitle(a, b) == toLowerCase(a) = toLowerCase(b)

\* (an assertion that lets every call through)
assertContextAliveSkipped == TRUE

\* assertContextAlive(context) returns, rather than throws
assertContextAlive == alive

listTodos ==
  IF ~assertContextAlive THEN Threw(ContextClosed)
  ELSE Returned(store, getAll(store))

getTodoById(todoId) ==
  IF ~assertContextAlive THEN Threw(ContextClosed)
  ELSE IF ~Has(store, todoId) THEN Threw(NotFoundError)
  ELSE Returned(store, << getById(store, todoId) >>)

createTodo(input) ==
  IF ~assertContextAlive THEN Threw(ContextClosed)
  ELSE IF \E i \in DOMAIN store : SameTitle(store[i].title, input.title)
  THEN Threw(ConflictError)
  ELSE LET todo == [id |-> nextId + 1, title |-> input.title,
                    completed |-> FALSE]
       IN Returned(MapSet(store, todo), << todo >>)

\* input.title = "" and input.completed = "" stand for an absent field
updateTodo(todoId, input) ==
  IF ~assertContextAlive THEN Threw(ContextClosed)
  ELSE IF ~Has(store, todoId) THEN Threw(NotFoundError)
  ELSE LET current == getById(store, todoId)
           updated == [id |-> current.id,
                       title |-> IF input.title = "" THEN current.title
                                 ELSE input.title,
                       completed |-> IF input.completed = ""
                                     THEN current.completed
                                     ELSE input.completed = "true"]
       IN IF /\ input.title # ""
             /\ ~SameTitle(input.title, current.title)
             /\ \E i \in DOMAIN store :
                  /\ store[i].id # todoId
                  /\ SameTitle(store[i].title, input.title)
          THEN Threw(ConflictError)
          ELSE Returned(MapSet(store, updated), << updated >>)

deleteTodo(todoId) ==
  IF ~assertContextAlive THEN Threw(ContextClosed)
  ELSE IF ~Has(store, todoId) THEN Threw(NotFoundError)
  ELSE Returned(deleteById(store, todoId), << >>)

\* inputs that pass CreateTodoSchema and UpdateTodoSchema
UpdateInputs == {u \in [title : Titles \cup {""}, completed : {"", "true", "false"}] :
                   u.title # "" \/ u.completed # ""}

\* the five todo controllers: the model call each handler makes and the status
\* it sends when the call returns
ModelCalls ==
  {[op |-> "list", id |-> 0, title |-> "", status |-> 200, did |-> listTodos]}
  \cup {[op |-> "get", id |-> id, title |-> "", status |-> 200,
          did |-> getTodoById(id)] : id \in TodoIds}
  \cup {[op |-> "create", id |-> 0, title |-> input.title, status |-> 201,
          did |-> createTodo(input)] : input \in [title : Titles]}
  \cup {[op |-> "update", id |-> id, title |-> input.title, status |-> 200,
          did |-> updateTodo(id, input)] : id \in TodoIds, input \in UpdateInputs}
  \cup {[op |-> "delete", id |-> id, title |-> "", status |-> 204,
          did |-> deleteTodo(id)] : id \in TodoIds}

\* what a handler's model call did, as the step's event: whether the context
\* was alive, the status answered, the message of what was thrown, whether the
\* store changed, the list a GET /todos sent
ModelEvent(call) ==
  [kind |-> "model", op |-> call.op, id |-> call.id, title |-> call.title,
   alive |-> alive,
   status |-> IF call.did.threw = NoThrow THEN call.status
              ELSE ErrorResponse(call.did.threw)[1],
   message |-> call.did.threw.message,
   changed |-> call.did.store # store,
   listed |-> IF call.op = "list" THEN call.did.value ELSE << >>]

\* the matched todo controller's handler runs to its end: the model call, then
\* sendJson / writeHead, or createRouter's catch -> handleHttpError
TodoHandler(k, call) ==
  /\ impl = "todo" /\ ~crashed /\ ~Urgent
  /\ conns[k].st = "handle"
  /\ call.op = "create" /\ call.did.threw = NoThrow => nextId < MaxTodos
  /\ conns' = [conns EXCEPT ![k].st = "idle", ![k].ctx = 0]
  /\ event' = ModelEvent(call)
  /\ store' = call.did.store
  /\ nextId' = IF call.op = "create" /\ call.did.threw = NoThrow
               THEN nextId + 1 ELSE nextId
  /\ ledger' = IF call.did.threw # NoThrow THEN ledger
               ELSE IF call.op = "create"
               THEN ledger \cup {call.did.value[1].id}
               ELSE IF call.op = "delete" THEN ledger \ {call.id}
               ELSE ledger
  /\ UNCHANGED << dispatchVars, pureVars, reader, publicBaseUrl, impl, cfgPort,
                  servers, httpServer, context, ctxBuilt, alive, destroyed, sockets,
                  calls, extPort, crashed, invocations, resolvedPort,
                  preRestartCtx >>

\* a caller that awaits each lifecycle call, and one client that sends its
\* requests one after the other on one connection at a time
NextStore ==
  \/ \E op \in {"start", "stop", "restart"} : InvokeSeq(op)
  \/ TodoStep
  \/ Connect(1, 1)
  \/ TodoRoute(1)
  \/ \E call \in ModelCalls : TodoHandler(1, call)
  \/ ConnClose(1)

SpecStore == InitTodo /\ [][NextStore]_vars

\* a handler's model call is what the last step did
ModelCalled(op) == event.kind = "model" /\ event.op = op

\* C22: whatever creates, updates and deletes have run, no two stored todos
\* have titles that are equal ignoring case; a create or update that would
\* produce such a pair fails with 409 CONFLICT and leaves the store as it was
C22_TitlesUniqueIgnoringCase ==
  /\ \A i, j \in DOMAIN store :
       i # j => toLowerCase(store[i].title) # toLowerCase(store[j].title)
  /\ (event.kind = "model" /\ event.status = 409) =>
       /\ event.op \in {"create", "update"}
       /\ event.message = "Todo title must be unique"
       /\ ~event.changed
       /\ \E i \in DOMAIN store :
            /\ store[i].id # event.id
            /\ toLowerCase(store[i].title) = toLowerCase(event.title)
  /\ (ModelCalled("create") /\ event.alive) =>
       \/ event.status = 409
       \/ /\ event.status = 201 /\ event.changed
          /\ Cardinality({i \in DOMAIN store :
               toLowerCase(store[i].title) = toLowerCase(event.title)}) = 1
  /\ (ModelCalled("update") /\ event.alive) => event.status \in {200, 404, 409}

\* an update to the title of the other stored todo, in another case, was refused
C22_Witness ==
  /\ ModelCalled("update") /\ event.status = 409
  /\ Len(store) = 2
  /\ \E i \in DOMAIN store : store[i].title # event.title
                             /\ toLowerCase(store[i].title) = toLowerCase(event.title)

\* C23: GET /todos returns exactly the todos that a POST /todos created with a
\* 201 and no DELETE removed since the last start(), each of them once; a todo
\* is created with completed = false; what was created before a stop() or
\* restart() is not returned after it
C23_ListIsCreatedAndNotDeleted ==
  /\ (ModelCalled("list") /\ event.status = 200) =>
       /\ {event.listed[i].id : i \in DOMAIN event.listed} = ledger
       /\ Len(event.listed) = Cardinality(ledger)
       /\ event.listed = store
  /\ (ModelCalled("create") /\ event.status = 201) =>
       /\ Has(store, nextId)
       /\ ~getById(store, nextId).completed
       /\ getById(store, nextId).title = event.title

\* a GET /todos after a stop() and a new start() lists the one todo created
\* since, and not the one created before
C23_Witness ==
  /\ ModelCalled("list") /\ event.status = 200
  /\ destroyed >= 1
  /\ nextId = 2
  /\ Len(event.listed) = 1 /\ event.listed[1].id = 2

\* C29: no todo model operation reads or changes the todo store while
\* context.lifecycle.alive is false: each throws "Context is closed" first, so
\* from a stop() call to the next start() only context.destroy() changes the
\* store
C29_ClosedContextIsNotTouched ==
  (event.kind = "model" /\ ~event.alive) =>
    /\ event.message = "Context is closed"
    /\ event.status = 500
    /\ ~event.changed
    /\ event.listed = << >>

\* a handler that was routed before stop() calls the model after stop() has
\* marked the context closed and before destroy() has emptied the store
C29_Witness ==
  /\ event.kind = "model" /\ ~event.alive
  /\ event.op \in {"create", "update", "delete", "list"}
  /\ store # << >>
  /\ \E c \in CallIds : calls[c].op \in {"stop", "restart"} /\ calls[c].pc = "closing"

\* C24: within stop() the listener stops accepting first, then every tracked
\* socket is destroyed, then the context is released: no tracked socket is
\* destroyed while the listener is still accepting, and the context is not
\* released while a tracked socket is still open
C24_StopClosesListenerFirst ==
  /\ (event.kind = "sockets" /\ event.tracked # {}) => ~event.accepting
  /\ (impl = "todo" /\ StopResolved) =>
       /\ sockets = {}
       /\ \A k \in ConnIds : ~conns[k].open

\* C25: stop() does not interrupt a request whose handler has started: the
\* handler runs to its end and its response is delivered before its socket is
\* closed, so stop() destroys no socket that has a handler in flight
C25_StopSparesHandlersInFlight ==
  event.kind = "sockets" =>
    \A k \in event.tracked : conns[k].st # "handle"

\* ------------------------------------------------------------------------
\* stop() against clients. The event loop runs stop()'s continuations when they
\* are ready, the server reads every request it has received, and Node ends a
\* connection that has no request in flight (closeIdleConnections on close(),
\* keepAliveTimeout); whether a handler ever answers is left open.
StopStep ==
  \/ \E c \in CallIds : TodoStopClose(c)
  \/ \E c \in CallIds : TodoStopClosed(c)
  \/ \E c \in CallIds : NotesStop(c)
  \/ \E c \in CallIds : NotesStopClosed(c)
  \/ \E c \in CallIds : SingleStop(c)
  \/ \E c \in CallIds : SingleStopClosed(c)

RouteStep ==
  \/ \E k \in ConnIds : TodoRoute(k)
  \/ \E k \in ConnIds : NotesEnsureContext(k)
  \/ \E k \in ConnIds : NotesRoute(k)
  \/ \E k \in ConnIds : SingleRoute(k)

IdleClose == \E k \in ConnIds : ConnClose(k)

SpecStopFair ==
  /\ Init
  /\ [][NextSeq]_vars
  /\ WF_vars(StopStep)
  /\ WF_vars(RouteStep)
  /\ WF_vars(IdleClose)

\* C26: stop() always eventually settles, whatever clients do: a connection
\* that does not close by itself is closed by force after a bounded time, so
\* neither an idle keep-alive connection nor a request that never completes
\* keeps stop() pending for ever
C26_StopEventuallySettles ==
  \A c \in CallIds : (calls[c].op = "stop") ~> (calls[c].op # "stop")

\* callers that do not wait for one another, on a machine where no other
\* process takes the server's port
NextOverlap ==
  \/ \E c \in CallIds, op \in {"start", "stop", "restart"} : Invoke(c, op)
  \/ \E c \in CallIds : TodoStartListen(c)
  \/ \E c \in CallIds : TodoListening(c)
  \/ \E c \in CallIds : TodoProbe(c)
  \/ \E c \in CallIds : NotesStart(c)
  \/ \E c \in CallIds : NotesStartBuild(c)
  \/ \E c \in CallIds : NotesBound(c)
  \/ \E c \in CallIds : SingleStart(c)
  \/ \E c \in CallIds : SingleStartBuild(c)
  \/ \E c \in CallIds : SingleBound(c)
  \/ \E k \in ConnIds, s \in ServerIds : Connect(k, s)
  \/ \E k \in ConnIds : NotesContextBuilt(k)
  \/ \E k \in ConnIds : Respond(k)
  \/ StopStep
  \/ RouteStep
  \/ IdleClose

SpecOverlap == Init /\ [][NextOverlap]_vars

\* the call that has just settled was made while a call of the other
\* transition was pending, and no call is pending any more
OverlapSettled ==
  /\ event.kind = "settled"
  /\ Pending = {}
  /\ \/ event.op \in {"stop", "restart"} /\ event.st0 = "Starting"
     \/ event.op = "start" /\ event.st0 = "Stopping"

\* C28: when a start() and a stop() or restart() overlap, then once every
\* pending call has settled the server is either listening with a live context
\* or not listening with no context
C28_OverlapSettlesConsistent ==
  OverlapSettled =>
    ((CurrentServer # 0 /\ servers[CurrentServer].listening) <=> ContextLive)

\* ------------------------------------------------------------------------
\* The todo server under any configuration of its public URL: start()'s
\* waitForHealth probes config.publicBaseUrl, which is configured apart from
\* the port the server listens on.
InitProbe ==
  Constructed /\ impl = "todo" /\ publicBaseUrl \in {"own", "other"}

SpecProbe == InitProbe /\ [][NextTodo]_vars

\* a start() has just rejected because waitForHealth gave up
HealthRejected ==
  /\ event.kind = "settled" /\ event.op = "start"
  /\ event.outcome = "rejected" /\ event.cause = "health"

\* C30: when the readiness probe never succeeds, waitForHealth gives up after
\* exactly 40 attempts and start() rejects, leaving the server Stopped: the
\* listener start() had bound is closed and lifecycle.alive is false
C30_FailedProbeLeavesStopped ==
  /\ \A c \in CallIds :
       calls[c].pc = "probe" => calls[c].attempt \in 1..maxAttempts
  /\ HealthRejected => (~servers[1].listening /\ ~alive)

====
